---- MODULE Spec2Model ----
(***************************************************************************)
(* Model of ac_complex_agilex5_dsp.cpp: a balanced binary reduction tree   *)
(* multiplying NumInputs complex fixed-point values (ac_complex<ac_int>),  *)
(* the template Unroller that walks the layers, and the host program       *)
(* (main, test_mult, check_result).                                        *)
(*                                                                         *)
(* ac_int values do not fit TLC's 32-bit integers (the output type is 35   *)
(* bits wide and a product of two of them 71), so integers are kept as     *)
(* sign + magnitude, the magnitude a little-endian sequence of limbs.      *)
(***************************************************************************)
EXTENDS Integers, Sequences, FiniteSets, TLC

(***************************************************************************)
(* Arbitrary-precision integers                                            *)
(***************************************************************************)
RECURSIVE Pow2(_)
Pow2(n) ==
  IF n = 0 THEN 1 ELSE 2 * Pow2(n - 1)

LimbBits == 12
LimbBase == Pow2(LimbBits)

RECURSIVE MagNorm(_)
MagNorm(m) ==
  IF m = <<>> THEN <<>>
  ELSE IF m[Len(m)] = 0 THEN MagNorm(SubSeq(m, 1, Len(m) - 1))
  ELSE m

RECURSIVE MagFromNat(_)
MagFromNat(n) ==
  IF n = 0 THEN <<>> ELSE <<n % LimbBase>> \o MagFromNat(n \div LimbBase)

RECURSIVE MagCmp(_, _)
MagCmp(a, b) ==
  IF Len(a) # Len(b) THEN (IF Len(a) < Len(b) THEN -1 ELSE 1)
  ELSE IF a = <<>> THEN 0
  ELSE IF a[Len(a)] # b[Len(b)] THEN (IF a[Len(a)] < b[Len(b)] THEN -1 ELSE 1)
  ELSE MagCmp(SubSeq(a, 1, Len(a) - 1), SubSeq(b, 1, Len(b) - 1))

RECURSIVE MagAddC(_, _, _)
MagAddC(a, b, c) ==
  IF a = <<>> /\ b = <<>> THEN (IF c = 0 THEN <<>> ELSE <<c>>)
  ELSE LET x == IF a = <<>> THEN 0 ELSE Head(a)
           y == IF b = <<>> THEN 0 ELSE Head(b)
           s == x + y + c
       IN <<s % LimbBase>> \o
          MagAddC(IF a = <<>> THEN <<>> ELSE Tail(a),
                  IF b = <<>> THEN <<>> ELSE Tail(b), s \div LimbBase)

MagAdd(a, b) ==
  MagAddC(a, b, 0)

\* a - b - c for a >= b + c
RECURSIVE MagSubB(_, _, _)
MagSubB(a, b, c) ==
  IF a = <<>> THEN <<>>
  ELSE LET y == IF b = <<>> THEN 0 ELSE Head(b)
           d == Head(a) - y - c
       IN <<IF d < 0 THEN d + LimbBase ELSE d>> \o
          MagSubB(Tail(a), IF b = <<>> THEN <<>> ELSE Tail(b),
                  IF d < 0 THEN 1 ELSE 0)

MagSub(a, b) ==
  MagNorm(MagSubB(a, b, 0))

RECURSIVE MagMulLimb(_, _, _)
MagMulLimb(a, d, c) ==
  IF a = <<>> THEN (IF c = 0 THEN <<>> ELSE <<c>>)
  ELSE LET p == Head(a) * d + c
       IN <<p % LimbBase>> \o MagMulLimb(Tail(a), d, p \div LimbBase)

RECURSIVE MagMul(_, _)
MagMul(a, b) ==
  IF a = <<>> \/ b = <<>> THEN <<>>
  ELSE LET rest == MagMul(a, Tail(b))
       IN MagNorm(MagAdd(MagMulLimb(a, Head(b), 0),
                         IF rest = <<>> THEN <<>> ELSE <<0>> \o rest))

\* 2^w as a magnitude
RECURSIVE MagPow2(_)
MagPow2(w) ==
  IF w < LimbBits THEN <<Pow2(w)>> ELSE <<0>> \o MagPow2(w - LimbBits)

\* m mod 2^w, limbs not yet normalised
RECURSIVE MagLowLimbs(_, _)
MagLowLimbs(m, w) ==
  IF m = <<>> \/ w = 0 THEN <<>>
  ELSE IF w >= LimbBits THEN <<Head(m)>> \o MagLowLimbs(Tail(m), w - LimbBits)
  ELSE <<Head(m) % Pow2(w)>>

MagLowBits(m, w) ==
  MagNorm(MagLowLimbs(m, w))

Big(neg, mag) ==
  [neg |-> neg /\ mag # <<>>, mag |-> mag]

BigFromInt(n) ==
  IF n < 0 THEN Big(TRUE, MagFromNat(-n)) ELSE Big(FALSE, MagFromNat(n))

BigNeg(a) ==
  Big(~a.neg, a.mag)

BigAdd(a, b) ==
  IF a.neg = b.neg THEN Big(a.neg, MagAdd(a.mag, b.mag))
  ELSE IF MagCmp(a.mag, b.mag) >= 0 THEN Big(a.neg, MagSub(a.mag, b.mag))
  ELSE Big(b.neg, MagSub(b.mag, a.mag))

BigSub(a, b) ==
  BigAdd(a, BigNeg(b))

BigMul(a, b) ==
  Big(a.neg # b.neg, MagMul(a.mag, b.mag))

\* -2^(w-1) <= x < 2^(w-1): x is representable as ac_int<w, true>
FitsSigned(x, w) ==
  IF x.neg THEN MagCmp(x.mag, MagPow2(w - 1)) <= 0
  ELSE MagCmp(x.mag, MagPow2(w - 1)) < 0

\* assignment of a wider value to ac_int<w, true>: the low w bits, signed
WrapSigned(x, w) ==
  LET r == MagLowBits(x.mag, w)
      u == IF x.neg /\ r # <<>> THEN MagSub(MagPow2(w), r) ELSE r
  IN IF MagCmp(u, MagPow2(w - 1)) >= 0
     THEN Big(TRUE, MagSub(MagPow2(w), u))
     ELSE Big(FALSE, u)

(***************************************************************************)
(* Complex values, ac_complex<ac_int<W, true>>                             *)
(***************************************************************************)
Cplx(r, i) ==
  [re |-> BigFromInt(r), im |-> BigFromInt(i)]

\* (a+bi)(c+di) = (ac-bd) + (ad+bc)i in full precision
CMul(a, b) ==
  [re |-> BigSub(BigMul(a.re, b.re), BigMul(a.im, b.im)),
   im |-> BigAdd(BigMul(a.re, b.im), BigMul(a.im, b.re))]

CWrap(c, w) ==
  [re |-> WrapSigned(c.re, w), im |-> WrapSigned(c.im, w)]

CFits(c, w) ==
  FitsSigned(c.re, w) /\ FitsSigned(c.im, w)

(***************************************************************************)
(* Program constants and the width model                                   *)
(***************************************************************************)
InputWidth == 8
NumInputsLog2 == 3
NumInputs == Pow2(NumInputsLog2)

OutputWidthOfMul(inputWidth) ==
  inputWidth * 2 + 1

BitWidthAtLayer(layer) ==
  (InputWidth + 1) * layer + InputWidth

\* the divisor written as layer + 1 instead of 1 << layer
ElementsInLayer_Linear(layer) ==
  NumInputs \div (layer + 1)

ElementsInLayer(layer) ==
  NumInputs \div Pow2(layer)

OutputWidth == BitWidthAtLayer(NumInputsLog2)

\* InputT(r, i): parts are ac_int<InputWidth, true>
InputT(r, i) ==
  CWrap(Cplx(r, i), InputWidth)

\* OutputT(r, i): parts are ac_int<OutputWidth, true>
OutputT(r, i) ==
  CWrap(Cplx(r, i), OutputWidth)

\* the vector main() passes to test_mult
MainInputs ==
  << InputT(10, 20), InputT(5, 10), InputT(-20, 20), InputT(20, 4),
     InputT(24, 3), InputT(4, 3), InputT(56, 2), InputT(34, 24) >>

expected == OutputT(1313, 2016)

\* both operands taken from the odd element of the pair
ReadIdxA_Odd(i) == 2 * i + 1

\* products stored two places up, over elements still to be read
WriteIdx_Shifted(i) == i + 2

\* prevBuffer[i] = prevBuffer[2*i] * prevBuffer[2*i+1]: operand and target indices
ReadIdxA(i) == 2 * i
ReadIdxB(i) == 2 * i + 1
WriteIdx(i) == i

\* the full-precision value of operator* on two ac_complex values
MulFull(a, b) ==
  CMul(a, b)

\* assignment of that product to an OutputT element
MulAssign(a, b) ==
  CWrap(MulFull(a, b), OutputWidth)

\* Unroller<Begin, End>: the terminal specialization is chosen when Begin == End,
\* otherwise the primary template recurses on Begin + 1
Unroller_IsEnd(Begin, End) ==
  Begin = End

\* the recursion skipping an index
Unroller_Succ_Skip(Begin) ==
  Begin + 2

Unroller_Succ(Begin) ==
  Begin + 1

\* a comparison that never reports a mismatch
check_result_AlwaysTrue(exp, found) ==
  TRUE

\* check_result's comparison
check_result(exp, found) ==
  ~(exp # found)

(***************************************************************************)
(* Bounds of the model                                                     *)
(***************************************************************************)
\* how many leading positions of an input vector range over the extreme values
MaxVaried == 2
\* Unroller<Begin, End> is explored for Begin, End in -MaxRange..MaxRange
MaxRange == 2
\* instantiation depth at which a recursion that cannot end is cut off
MaxDepth == 8

MinPart == -Pow2(InputWidth - 1)
MaxPart == Pow2(InputWidth - 1) - 1

ExtremeVals ==
  {InputT(r, i) : r \in {MinPart, MaxPart}, i \in {MinPart, MaxPart}}

AllMin ==
  [j \in 1..NumInputs |-> InputT(MinPart, MinPart)]

ExtremeSeq ==
  << InputT(MinPart, MinPart), InputT(MinPart, MaxPart),
     InputT(MaxPart, MinPart), InputT(MaxPart, MaxPart) >>

\* base with each of its first MaxVaried elements kept (0) or replaced by an
\* extreme value (1..4)
Varied(base) ==
  {[j \in 1..NumInputs |->
      IF j <= MaxVaried /\ p[j] # 0 THEN ExtremeSeq[p[j]] ELSE base[j]] :
     p \in [1..MaxVaried -> 0..Len(ExtremeSeq)]}

FullInputs ==
  Varied(MainInputs) \cup Varied(AllMin)

\* vectors of a wrong length: one element short, one element long
InputChoices ==
  FullInputs
    \cup {SubSeq(v, 1, NumInputs - 1) : v \in {MainInputs, AllMin}}
    \cup {v \o <<v[1]>> : v \in {MainInputs, AllMin}}

ErrCodes == {"CL_DEVICE_NOT_FOUND", "other"}

CZero == Cplx(0, 0)

(***************************************************************************)
(* State                                                                   *)
(***************************************************************************)
VARIABLES
  pc,          \* position of the host program / kernel
  ndebug,      \* whether the build defines NDEBUG (assert compiled out)
  in,          \* the vector passed to test_mult
  res,         \* main's res, test_mult's out
  buffers,     \* inputBuffer and result have been constructed
  inputBuffer, \* contents of buffer<InputT> inputBuffer
  result,      \* contents of buffer<OutputT> result
  submitted,   \* number of kernels submitted to the queue
  prevBuffer,  \* the kernel's OutputT prevBuffer[NumInputs]
  i,           \* loop index of the kernel's current loop
  layerElts,
  layerPairs,
  layerStart,  \* prevBuffer as it was when the current layer started
  lastProd,    \* full-precision value of the last operator* evaluated
  stdout,
  stderr,
  errCode,     \* code of the sycl::exception in flight
  exit,        \* how the process ended
  uBegin,      \* Unroller<Begin, End> the outermost step() was called on
  uEnd,
  uCur,        \* Begin of the instantiation whose step() is running
  uCalls       \* indices action has been invoked with, in order

vars ==
  << pc, ndebug, in, res, buffers, inputBuffer, result, submitted, prevBuffer,
     i, layerElts, layerPairs, layerStart, lastProd, stdout, stderr, errCode,
     exit, uBegin, uEnd, uCur, uCalls >>

kernelVars == << prevBuffer, i, layerElts, layerPairs, layerStart, lastProd >>
hostVars == << ndebug, in, res, buffers, inputBuffer, submitted, stdout,
               stderr, errCode, exit >>
unrollVars == << uBegin, uEnd, uCur, uCalls >>

EmptyBuffer == [j \in {} |-> CZero]

Init ==
  /\ pc = "start"
  /\ ndebug \in BOOLEAN
  /\ in \in InputChoices
  /\ res = OutputT(0, 0)
  /\ buffers = FALSE
  /\ inputBuffer = <<>>
  /\ result = CZero
  /\ submitted = 0
  /\ prevBuffer = EmptyBuffer
  /\ i = 0
  /\ layerElts = 0
  /\ layerPairs = 0
  /\ layerStart = EmptyBuffer
  /\ lastProd = CZero
  /\ stdout = <<>>
  /\ stderr = <<>>
  /\ errCode = "none"
  /\ exit = "running"
  /\ uBegin = 0
  /\ uEnd = NumInputsLog2
  /\ uCur = 0
  /\ uCalls = <<>>

(***************************************************************************)
(* Host: main up to the call of test_mult                                  *)
(***************************************************************************)
\* a sycl::exception leaves the try block
Throw(code) ==
  /\ pc' = "caught"
  /\ errCode' = code

\* queue q(selector, fpga_tools::exception_handler)
CreateQueue ==
  /\ pc = "start"
  /\ \/ /\ pc' = "queue"
        /\ UNCHANGED errCode
     \/ \E code \in ErrCodes : Throw(code)
  /\ UNCHANGED << kernelVars, unrollVars, ndebug, in, res, buffers,
                  inputBuffer, result, submitted, stdout, stderr, exit >>

\* q.get_device(), "Running on device: ..."
PrintDevice ==
  /\ pc = "queue"
  /\ \/ /\ pc' = "call"
        /\ stdout' = Append(stdout, "Running on device")
        /\ UNCHANGED errCode
     \/ /\ \E code \in ErrCodes : Throw(code)
        /\ UNCHANGED stdout
  /\ UNCHANGED << kernelVars, unrollVars, ndebug, in, res, buffers,
                  inputBuffer, result, submitted, stderr, exit >>

(***************************************************************************)
(* test_mult                                                               *)
(***************************************************************************)
\* assert(in.size() == NumInputs): aborts unless NDEBUG compiled it out
AssertSize ==
  /\ pc = "call"
  /\ IF Len(in) = NumInputs \/ ndebug
     THEN /\ pc' = "buffers"
          /\ UNCHANGED << stderr, exit >>
     ELSE /\ pc' = "ended"
          /\ stderr' = Append(stderr, "Assertion failed")
          /\ exit' = "abort"
  /\ UNCHANGED << kernelVars, unrollVars, ndebug, in, res, buffers,
                  inputBuffer, result, submitted, stdout, errCode >>

\* buffer<InputT> inputBuffer(in.begin(), in.end()); buffer<OutputT> result(&out, 1)
CreateBuffers ==
  /\ pc = "buffers"
  /\ \/ /\ pc' = "submit"
        /\ buffers' = TRUE
        /\ inputBuffer' = in
        /\ result' = res
        /\ UNCHANGED errCode
     \/ /\ \E code \in ErrCodes : Throw(code)
        /\ UNCHANGED << buffers, inputBuffer, result >>
  /\ UNCHANGED << kernelVars, unrollVars, ndebug, in, res, submitted,
                  stdout, stderr, exit >>

\* Queue.submit(...): the kernel is enqueued and starts with its copy loop
Submit ==
  /\ pc = "submit"
  /\ \/ /\ pc' = "copy"
        /\ submitted' = submitted + 1
        /\ i' = 0
        /\ UNCHANGED << errCode, res >>
     \/ /\ \E code \in ErrCodes : Throw(code)
        /\ res' = result
        /\ UNCHANGED << submitted, i >>
  /\ UNCHANGED << prevBuffer, layerElts, layerPairs, layerStart, lastProd,
                  unrollVars, ndebug, in, buffers, inputBuffer, result,
                  stdout, stderr, exit >>

(***************************************************************************)
(* The kernel (single_task mult)                                           *)
(***************************************************************************)
\* for (i = 0; i < NumInputs; ++i) prevBuffer[i] = x[i];
\* x[i] past the end of the buffer is an out-of-bounds read: any value
CopyStep ==
  /\ pc = "copy"
  /\ i < NumInputs
  /\ \E v \in (IF i < Len(inputBuffer) THEN {inputBuffer[i + 1]}
               ELSE ExtremeVals) :
       prevBuffer' = (i :> CWrap(v, OutputWidth)) @@ prevBuffer
  /\ i' = i + 1
  /\ UNCHANGED << pc, layerElts, layerPairs, layerStart, lastProd,
                  unrollVars, hostVars, result >>

\* the copy loop ends; Unroller<0, NumInputsLog2>::step(lambda) is called
CopyDone ==
  /\ pc = "copy"
  /\ i = NumInputs
  /\ pc' = "unroll"
  /\ uCur' = uBegin
  /\ uCalls' = <<>>
  /\ UNCHANGED << kernelVars, uBegin, uEnd, hostVars, result >>

\* Unroller<Begin, End>::step: action(Begin), here the layer lambda, which
\* starts with layerElts = ElementsInLayer(l), layerPairs = layerElts / 2
UnrollerInvoke ==
  /\ pc = "unroll"
  /\ ~Unroller_IsEnd(uCur, uEnd)
  /\ uCalls' = Append(uCalls, uCur)
  /\ layerElts' = ElementsInLayer(uCur)
  /\ layerPairs' = ElementsInLayer(uCur) \div 2
  /\ i' = 0
  /\ layerStart' = prevBuffer
  /\ pc' = "mult"
  /\ UNCHANGED << prevBuffer, lastProd, uBegin, uEnd, uCur, hostVars, result >>

\* for (i = 0; i < layerPairs; i++) prevBuffer[i] = prevBuffer[2*i]*prevBuffer[2*i+1];
MultStep ==
  /\ pc = "mult"
  /\ i < layerPairs
  /\ lastProd' = MulFull(prevBuffer[ReadIdxA(i)], prevBuffer[ReadIdxB(i)])
  /\ prevBuffer' = [prevBuffer EXCEPT ![WriteIdx(i)] =
                      MulAssign(prevBuffer[ReadIdxA(i)], prevBuffer[ReadIdxB(i)])]
  /\ i' = i + 1
  /\ UNCHANGED << pc, layerElts, layerPairs, layerStart, unrollVars,
                  hostVars, result >>

\* the lambda returns; step() goes on with Unroller<Begin + 1, End>::step
LayerReturn ==
  /\ pc = "mult"
  /\ i = layerPairs
  /\ uCur' = Unroller_Succ(uCur)
  /\ pc' = "unroll"
  /\ UNCHANGED << kernelVars, uBegin, uEnd, uCalls, hostVars, result >>

\* Unroller<End, End>::step does nothing; then res[0] = prevBuffer[0]
UnrollerEnd ==
  /\ pc = "unroll"
  /\ Unroller_IsEnd(uCur, uEnd)
  /\ result' = prevBuffer[0]
  /\ pc' = "wait"
  /\ UNCHANGED << kernelVars, unrollVars, hostVars >>

(***************************************************************************)
(* Host: after the kernel                                                  *)
(***************************************************************************)
\* Queue.wait(); on return the result buffer is destroyed and written back to out
WaitAndReturn ==
  /\ pc = "wait"
  /\ res' = result
  /\ \/ /\ pc' = "check"
        /\ UNCHANGED errCode
     \/ \E code \in ErrCodes : Throw(code)
  /\ UNCHANGED << kernelVars, unrollVars, ndebug, in, buffers, inputBuffer,
                  result, submitted, stdout, stderr, exit >>

\* if (!check_result(expected, res, "test_mult")) { FAILED; return -1 } else PASSED
CheckResult ==
  /\ pc = "check"
  /\ pc' = "ended"
  /\ IF check_result(expected, res)
     THEN /\ stdout' = Append(stdout, "PASSED")
          /\ exit' = "return 0"
     ELSE /\ stdout' = stdout \o << "test_mult: failed", "expected", "found",
                                    "FAILED" >>
          /\ exit' = "return -1"
  /\ UNCHANGED << kernelVars, unrollVars, ndebug, in, res, buffers,
                  inputBuffer, result, submitted, stderr, errCode >>

\* catch (sycl::exception const &e): message, hint for CL_DEVICE_NOT_FOUND,
\* std::terminate()
CatchTerminate ==
  /\ pc = "caught"
  /\ pc' = "ended"
  /\ stderr' = stderr \o << "Caught a SYCL host exception" >> \o
                 (IF errCode = "CL_DEVICE_NOT_FOUND"
                  THEN << "ensure that your system has a correctly configured FPGA board" >>
                  ELSE << >>)
  /\ exit' = "terminate"
  /\ UNCHANGED << kernelVars, unrollVars, ndebug, in, res, buffers,
                  inputBuffer, result, submitted, stdout, errCode >>

Next ==
  \/ CreateQueue
  \/ PrintDevice
  \/ AssertSize
  \/ CreateBuffers
  \/ Submit
  \/ CopyStep
  \/ CopyDone
  \/ UnrollerInvoke
  \/ MultStep
  \/ LayerReturn
  \/ UnrollerEnd
  \/ WaitAndReturn
  \/ CheckResult
  \/ CatchTerminate

Spec == Init /\ [][Next]_vars

(***************************************************************************)
(* The Unroller on its own: Unroller<Begin, End>::step(action) for any     *)
(* Begin and End, action only recording the index it is invoked with       *)
(***************************************************************************)
InitUnroller ==
  /\ pc = "u_step"
  /\ uBegin \in -MaxRange..MaxRange
  /\ uEnd \in -MaxRange..MaxRange
  /\ uCur = uBegin
  /\ uCalls = <<>>
  /\ ndebug = FALSE
  /\ in = <<>>
  /\ res = OutputT(0, 0)
  /\ buffers = FALSE
  /\ inputBuffer = <<>>
  /\ result = CZero
  /\ submitted = 0
  /\ prevBuffer = EmptyBuffer
  /\ i = 0
  /\ layerElts = 0
  /\ layerPairs = 0
  /\ layerStart = EmptyBuffer
  /\ lastProd = CZero
  /\ stdout = <<>>
  /\ stderr = <<>>
  /\ errCode = "none"
  /\ exit = "running"

\* primary template: action(Begin); Unroller<Begin + 1, End>::step(action)
StepPrimary ==
  /\ pc = "u_step"
  /\ ~Unroller_IsEnd(uCur, uEnd)
  /\ uCur - uBegin < MaxDepth
  /\ uCalls' = Append(uCalls, uCur)
  /\ uCur' = Unroller_Succ(uCur)
  /\ UNCHANGED << pc, uBegin, uEnd, kernelVars, hostVars, result >>

\* specialization Unroller<End, End>: step does nothing and returns
StepTerminal ==
  /\ pc = "u_step"
  /\ Unroller_IsEnd(uCur, uEnd)
  /\ pc' = "u_done"
  /\ UNCHANGED << unrollVars, kernelVars, hostVars, result >>

NextUnroller ==
  \/ StepPrimary
  \/ StepTerminal

SpecUnroller == InitUnroller /\ [][NextUnroller]_vars

\* a function that has been called keeps running
FairSpecUnroller == SpecUnroller /\ WF_vars(NextUnroller)

(***************************************************************************)
(* Properties                                                              *)
(***************************************************************************)
Range(s) == {s[k] : k \in 1..Len(s)}

\* the product of all elements of s, left to right, in unbounded integers
RECURSIVE ExactProduct(_)
ExactProduct(s) ==
  IF Len(s) = 1 THEN s[1]
  ELSE CMul(ExactProduct(SubSeq(s, 1, Len(s) - 1)), s[Len(s)])

IsExtreme(c) ==
  /\ c.re \in {BigFromInt(MinPart), BigFromInt(MaxPart)}
  /\ c.im \in {BigFromInt(MinPart), BigFromInt(MaxPart)}

\* the width recurrence w -> 2w + 1 applied n times to InputWidth
RECURSIVE RecurrenceWidth(_)
RecurrenceWidth(n) ==
  IF n = 0 THEN InputWidth ELSE 2 * RecurrenceWidth(n - 1) + 1

\* C1: for every input of NumInputs values with InputWidth-bit parts, the value
\* test_mult writes to out is the exact complex product of all inputs.
C1_ExactProduct ==
  (pc = "check" /\ Len(in) = NumInputs) => res = ExactProduct(in)

\* C2: for inputs whose parts are all at the extremes of the InputWidth-bit
\* range, every product made at layer l+1 has its parts in the signed range of
\* BitWidthAtLayer(l+1) bits, and is stored without truncation.
C2_ProductsFitLayerWidth ==
  (pc = "mult" /\ i > 0 /\ Len(in) = NumInputs
     /\ \A k \in 1..Len(in) : IsExtreme(in[k]))
    => /\ CFits(lastProd, BitWidthAtLayer(uCur + 1))
       /\ prevBuffer[i - 1] = lastProd

\* C3: on main's eight inputs the reduction yields exactly (1313, 2016) and the
\* host check prints PASSED.
C3_MainScenario ==
  (pc = "ended" /\ in = MainInputs /\ errCode = "none")
    => /\ res = Cplx(1313, 2016)
       /\ stdout[Len(stdout)] = "PASSED"

\* C4: BitWidthAtLayer solves the width recurrence: BitWidthAtLayer(0) is
\* InputWidth, BitWidthAtLayer(l+1) is OutputWidthOfMul(BitWidthAtLayer(l)) at
\* every layer the kernel runs, and OutputWidth is the recurrence applied
\* NumInputsLog2 times to InputWidth.
C4_ClosedFormSolvesRecurrence ==
  /\ BitWidthAtLayer(0) = InputWidth
  /\ pc = "mult" =>
       BitWidthAtLayer(uCur + 1) = OutputWidthOfMul(BitWidthAtLayer(uCur))
  /\ pc = "wait" => OutputWidth = RecurrenceWidth(NumInputsLog2)

Max0(n) == IF n < 0 THEN 0 ELSE n

UpTo(b, e) == [k \in 1..Max0(e - b) |-> b + k - 1]

\* C5 as stated: for all Begin and End, step never invokes action more than
\* max(0, End - Begin) times, the indices are Begin, Begin+1, ... in order, and
\* it ends having invoked it exactly max(0, End - Begin) times.
C5_AllRanges ==
  /\ Len(uCalls) <= Max0(uEnd - uBegin)
  /\ pc = "u_done" => uCalls = UpTo(uBegin, uEnd)

\* C5 amended, safety part: the indices action has been invoked with are
\* Begin, Begin+1, ... up to the running instantiation; for Begin <= End they
\* never pass End-1 and are exactly Begin..End-1 when step has returned; for
\* Begin > End step never returns.
C5_Safe ==
  /\ uCalls = UpTo(uBegin, uCur)
  /\ uBegin <= uEnd => uCur <= uEnd
  /\ (uBegin <= uEnd /\ pc = "u_done") => uCalls = UpTo(uBegin, uEnd)
  /\ uBegin > uEnd => pc # "u_done"

\* C5 amended: for Begin <= End, Unroller<Begin, End>::step terminates having
\* invoked action exactly End - Begin times with Begin, ..., End-1 in
\* increasing order (none when Begin = End); for Begin > End the recursion
\* never reaches the terminal specialization.
C5_UnrollerCoverage ==
  /\ []C5_Safe
  /\ (pc = "u_step" /\ uBegin <= uEnd) ~> (pc = "u_done")

C5_Witness ==
  /\ pc = "u_done"
  /\ uEnd - uBegin >= 2
  /\ Len(uCalls) = uEnd - uBegin

\* the layer's multiplications applied to buf in the given order
RECURSIVE RunLayer(_, _)
RunLayer(buf, order) ==
  IF order = <<>> THEN buf
  ELSE RunLayer([buf EXCEPT ![WriteIdx(Head(order))] =
                   MulAssign(buf[ReadIdxA(Head(order))], buf[ReadIdxB(Head(order))])],
                Tail(order))

Orders(n) ==
  {o \in [1..n -> 0..(n - 1)] : \A a, b \in 1..n : a # b => o[a] # o[b]}

\* C6 as stated: no multiplication of a layer writes an element that another
\* multiplication of the same layer reads, so every execution order gives the
\* next-layer values of the increasing order.
C6_OrderIndependent ==
  pc = "mult" =>
    /\ \A a, b \in 0..(layerPairs - 1) :
         a # b => WriteIdx(b) \notin {ReadIdxA(a), ReadIdxB(a)}
    /\ \A o \in Orders(layerPairs) : \A j \in 0..(layerPairs - 1) :
         RunLayer(layerStart, o)[j] = RunLayer(layerStart, UpTo(0, layerPairs))[j]

\* C6 amended: in the increasing index order the loop runs in, no
\* multiplication reads an element an earlier multiplication of the same layer
\* has written: the two elements the next multiplication reads still hold the
\* values they had when the layer started.
C6_InOrderReadsUntouched ==
  pc = "mult" =>
    /\ \A a, b \in 0..(layerPairs - 1) :
         a < b => WriteIdx(a) \notin {ReadIdxA(b), ReadIdxB(b)}
    /\ i < layerPairs =>
         /\ prevBuffer[ReadIdxA(i)] = layerStart[ReadIdxA(i)]
         /\ prevBuffer[ReadIdxB(i)] = layerStart[ReadIdxB(i)]

C6_Witness ==
  /\ pc = "mult"
  /\ i >= 2
  /\ i < layerPairs
  /\ prevBuffer[1] # layerStart[1]

\* C7: the number of live elements halves exactly at each layer and ends at
\* one: layer 0 has NumInputs elements, each layer has exactly twice the
\* elements of the next and multiplies one pair per element of the next, and
\* after layer NumInputsLog2 - 1 one element is left, the one written to the
\* result.
C7_ElementHalving ==
  /\ ElementsInLayer(0) = NumInputs
  /\ pc = "mult" =>
       /\ layerElts = ElementsInLayer(uCur)
       /\ layerElts = 2 * ElementsInLayer(uCur + 1)
       /\ layerPairs = ElementsInLayer(uCur + 1)
       /\ uCur = 0 => layerElts = Cardinality(DOMAIN prevBuffer)
  /\ pc = "wait" =>
       /\ uCur = NumInputsLog2
       /\ ElementsInLayer(uCur) = 1
       /\ layerPairs = 1
       /\ i = 1
       /\ result = prevBuffer[0]

C7_Witness ==
  /\ pc = "wait"
  /\ uCalls = UpTo(0, NumInputsLog2)
  /\ Len(in) = NumInputs

\* C8: when test_mult is called with in.size() != NumInputs no buffer is
\* created, no kernel is submitted and out is left unchanged.
C8_WrongLengthRejected ==
  Len(in) # NumInputs =>
    /\ ~buffers
    /\ submitted = 0
    /\ res = OutputT(0, 0)

\* C9: a SYCL failure ends the run in the terminate path without PASSED or
\* FAILED ever printed and without a second submission of the kernel; a
\* completed run whose result differs from the expected value prints FAILED and
\* returns -1 without terminating; PASSED is printed only when the result
\* equals the expected value.
C9_Outcomes ==
  /\ submitted <= 1
  /\ errCode # "none" =>
       /\ "PASSED" \notin Range(stdout)
       /\ "FAILED" \notin Range(stdout)
       /\ exit \in {"running", "terminate"}
       /\ pc \in {"caught", "ended"}
  /\ (pc = "ended" /\ errCode # "none") =>
       /\ exit = "terminate"
       /\ "Caught a SYCL host exception" \in Range(stderr)
  /\ exit = "terminate" => errCode # "none"
  /\ (pc = "ended" /\ errCode = "none" /\ exit # "abort" /\ res # expected) =>
       /\ stdout[Len(stdout)] = "FAILED"
       /\ exit = "return -1"
  /\ "PASSED" \in Range(stdout) => (res = expected /\ exit = "return 0")
  /\ "FAILED" \in Range(stdout) => (res # expected /\ exit = "return -1")

C9_Witness ==
  /\ pc = "ended"
  /\ exit = "terminate"
  /\ submitted = 1
  /\ res # expected

====
